---- MODULE Spec2Model ----
(***************************************************************************)
(* NFL odds scraper (odds_scraper/odds.py): the GUI controller             *)
(* OddsScraperWindow, the background ScraperWorker.run loop, the cached    *)
(* browser session, and the text cleaning applied to the scraped cells.    *)
(*                                                                         *)
(* Texts that the code inspects character by character (the week inputs,   *)
(* the table cells) are sequences of one-character strings; messages that  *)
(* are only produced and compared are TLA+ strings.                        *)
(***************************************************************************)
EXTENDS Integers, Sequences, FiniteSets, TLC

VARIABLES
    start_button,     \* start_button.isEnabled()
    stop_button,      \* stop_button.isEnabled()
    status_text,      \* status_text.text()
    start_week_edit,  \* start_week_edit.text()
    end_week_edit,    \* end_week_edit.text()
    worker,           \* OddsScraperWindow.worker: None, or the n-th ScraperWorker
    inbox,            \* worker signals queued for the GUI thread, in emission order
    local_driver,     \* LOCAL_THREAD.driver as the GUI thread sees it
    sessions,         \* browser sessions created and not yet quit
    created,          \* number of browser sessions created so far
    app,              \* "running" until app.exec() has returned and the process exits
    year,             \* datetime.now().year
    w,                \* the fields and the control position of the current worker
    emitted,          \* signals the current worker has emitted, in order
    fetched,          \* weeks the current worker has called driver.get for
    exported,         \* files the current worker has written
    stop_request,     \* the last stop request acted on: the worker it reached
                      \* and, while that worker is the current one, where it
                      \* stood at the time
    cell              \* one table cell on its way through cleaning and coercion

vars == <<start_button, stop_button, status_text, start_week_edit, end_week_edit,
          worker, inbox, local_driver, sessions, created, app, year,
          w, emitted, fetched, exported, stop_request, cell>>

gui_vars == <<start_button, stop_button, status_text, start_week_edit,
              end_week_edit, worker>>
run_vars == <<w, emitted, fetched, exported>>
drv_vars == <<local_driver, sessions, created>>
machine_vars == <<gui_vars, run_vars, drv_vars, inbox, app, year, stop_request>>

(***************************************************************************)
(* Bounds of the model.                                                    *)
(***************************************************************************)
MaxRuns == 2          \* workers created in one behaviour
FirstYear == 2009     \* the year the clock shows at the start
MaxYearTicks == 1     \* New Year's Eves passed in one behaviour
MaxCellLen == 4       \* characters of an enumerated Spread/Total/Moneyline cell
MaxChunks == 3        \* pieces an enumerated Matchup cell is assembled from
MaxSessions == 40     \* browser sessions created in one sequence of calls

(***************************************************************************)
(* Characters.                                                             *)
(***************************************************************************)
Minus == "U+2212"     \* the one-character string U+2212 MINUS SIGN

Digits == {"0", "1", "2", "3", "4", "5", "6", "7", "8", "9"}

DigitVal(c) ==
    CASE c = "0" -> 0 [] c = "1" -> 1 [] c = "2" -> 2 [] c = "3" -> 3
      [] c = "4" -> 4 [] c = "5" -> 5 [] c = "6" -> 6 [] c = "7" -> 7
      [] c = "8" -> 8 [] c = "9" -> 9

\* regex classes \d, \w and \s over the characters the model draws from
IsDigit(c) == c \in Digits
IsWord(c) == c \in Digits \cup {"A", "P", "M", "E", "S", "T", "B", "u", "a", "_"}
IsSpace(c) == c = " "

\* the character at position i, or "" past the end of the text
At(x, i) == IF i >= 1 /\ i <= Len(x) THEN x[i] ELSE ""

\* the last position of the run of digits that starts at i (i - 1 when
\* x[i] is no digit): a greedy \d*
DigitRunEnd(x, i) ==
    IF i > Len(x) THEN i - 1
    ELSE CHOOSE e \in (i - 1)..Len(x) :
            /\ \A k \in i..e : IsDigit(x[k])
            /\ e = Len(x) \/ ~IsDigit(x[e + 1])

\* the same for blanks: a greedy \s*
SpaceRunEnd(x, i) ==
    IF i > Len(x) THEN i - 1
    ELSE CHOOSE e \in (i - 1)..Len(x) :
            /\ \A k \in i..e : IsSpace(x[k])
            /\ e = Len(x) \/ ~IsSpace(x[e + 1])

RECURSIVE DigitsVal(_)
DigitsVal(x) ==
    IF x = <<>> THEN 0
    ELSE 10 * DigitsVal(SubSeq(x, 1, Len(x) - 1)) + DigitVal(x[Len(x)])

RECURSIVE Pow10(_)
Pow10(n) == IF n = 0 THEN 1 ELSE 10 * Pow10(n - 1)

(***************************************************************************)
(* Cell cleaning, ScraperWorker.run lines 72-87.                           *)
(***************************************************************************)

\* the pattern with its colon optional, ^\d{1,2}:?\d{2}[AP]M\w{2,3}\s*
MatchupPrefixLenColonOptional(x) ==
    LET d == IF IsDigit(At(x, 1)) /\ IsDigit(At(x, 2)) /\ At(x, 3) = ":" THEN 2
             ELSE IF IsDigit(At(x, 1)) /\ At(x, 2) = ":" THEN 1
             ELSE 0
        c == IF d > 0 THEN d + 1
             ELSE IF IsDigit(At(x, 1)) /\ IsDigit(At(x, 2)) /\ IsDigit(At(x, 3))
                     /\ IsDigit(At(x, 4)) THEN 2
             ELSE 1
    IN  IF /\ IsDigit(At(x, 1))
           /\ IsDigit(At(x, c + 1)) /\ IsDigit(At(x, c + 2))
           /\ At(x, c + 3) \in {"A", "P"}
           /\ At(x, c + 4) = "M"
           /\ IsWord(At(x, c + 5)) /\ IsWord(At(x, c + 6))
        THEN LET z == IF IsWord(At(x, c + 7)) THEN c + 7 ELSE c + 6
             IN  SpaceRunEnd(x, z + 1)
        ELSE 0

\* length of the match of ^\d{1,2}:\d{2}[AP]M\w{2,3}\s* at the start of x,
\* 0 when the pattern does not match
MatchupPrefixLen(x) ==
    LET d == IF IsDigit(At(x, 1)) /\ IsDigit(At(x, 2)) /\ At(x, 3) = ":" THEN 2
             ELSE IF IsDigit(At(x, 1)) /\ At(x, 2) = ":" THEN 1
             ELSE 0
        c == d + 1      \* position of the colon
    IN  IF /\ d > 0
           /\ IsDigit(At(x, c + 1)) /\ IsDigit(At(x, c + 2))
           /\ At(x, c + 3) \in {"A", "P"}
           /\ At(x, c + 4) = "M"
           /\ IsWord(At(x, c + 5)) /\ IsWord(At(x, c + 6))
        THEN LET z == IF IsWord(At(x, c + 7)) THEN c + 7 ELSE c + 6
             IN  SpaceRunEnd(x, z + 1)
        ELSE 0

\* re.sub(r"^\d{1,2}:\d{2}[AP]M\w{2,3}\s*", "", x)
CleanMatchup(x) == SubSeq(x, MatchupPrefixLen(x) + 1, Len(x))

\* end of the match of \d+(\.\d+)? starting at position i, 0 when none
MatchUnsignedAt(x, i) ==
    IF ~IsDigit(At(x, i)) THEN 0
    ELSE LET e == DigitRunEnd(x, i)
         IN  IF At(x, e + 1) = "." /\ IsDigit(At(x, e + 2))
             THEN DigitRunEnd(x, e + 2)
             ELSE e

\* end of the match of [-+]?\d+(\.\d+)? starting at position i, 0 when none
MatchSignedAt(x, i) ==
    IF At(x, i) \in {"-", "+"} THEN MatchUnsignedAt(x, i + 1)
    ELSE MatchUnsignedAt(x, i)

\* re.search: the match at the leftmost position where the pattern
\* matches, as <<first, last>>, or <<0, 0>>
SearchSigned(x) ==
    LET starts == {i \in 1..Len(x) : MatchSignedAt(x, i) > 0}
    IN  IF starts = {} THEN <<0, 0>>
        ELSE LET i == CHOOSE k \in starts : \A j \in starts : k <= j
             IN  <<i, MatchSignedAt(x, i)>>

SearchUnsigned(x) ==
    LET starts == {i \in 1..Len(x) : MatchUnsignedAt(x, i) > 0}
    IN  IF starts = {} THEN <<0, 0>>
        ELSE LET i == CHOOSE k \in starts : \A j \in starts : k <= j
             IN  <<i, MatchUnsignedAt(x, i)>>

\* lambda x: re.search(p, x).group() if re.search(p, x) else x, for a
\* search result m
GroupOrSelf(x, m) == IF m[1] > 0 THEN SubSeq(x, m[1], m[2]) ELSE x

\* the Spread pattern without its sign
CleanSpreadUnsigned(x) == GroupOrSelf(x, SearchUnsigned(x))

CleanSpread(x) == GroupOrSelf(x, SearchSigned(x))

CleanTotal(x) == GroupOrSelf(x, SearchUnsigned(x))

\* x.replace(U+2212, "-")
CleanMoneyline(x) == [i \in 1..Len(x) |-> IF x[i] = Minus THEN "-" ELSE x[i]]

(***************************************************************************)
(* pd.to_numeric on one string, lines 88-90.  A number is held as          *)
(* (-1)^neg * mant / 10^scale with no trailing zero in the fraction.       *)
(***************************************************************************)
NaN == [ok |-> TRUE, nan |-> TRUE, neg |-> FALSE, mant |-> 0, scale |-> 0]
NotNumeric == [ok |-> FALSE, nan |-> FALSE, neg |-> FALSE, mant |-> 0, scale |-> 0]

RECURSIVE Normal(_, _, _)
Normal(neg, mant, scale) ==
    IF scale > 0 /\ mant % 10 = 0 THEN Normal(neg, mant \div 10, scale - 1)
    ELSE [ok |-> TRUE, nan |-> FALSE, neg |-> neg /\ mant # 0,
          mant |-> mant, scale |-> scale]

\* surrounding blanks are skipped; then an optional ASCII sign, digits with
\* at most one decimal point and at least one digit; the empty string is
\* read as a missing value; anything else raises ValueError
ToNumeric(x) ==
    LET a == SpaceRunEnd(x, 1) + 1
        s == IF a > Len(x) THEN <<>>
             ELSE SubSeq(x, a, CHOOSE j \in a..Len(x) :
                                 /\ ~IsSpace(x[j])
                                 /\ \A k \in (j + 1)..Len(x) : IsSpace(x[k]))
        signed == At(s, 1) \in {"-", "+"}
        body == IF signed THEN Tail(s) ELSE s
        ie == DigitRunEnd(body, 1)
        hasPoint == At(body, ie + 1) = "."
        fe == IF hasPoint THEN DigitRunEnd(body, ie + 2) ELSE ie
        nfrac == IF hasPoint THEN fe - (ie + 1) ELSE 0
    IN  IF x = <<>> THEN NaN
        ELSE IF fe = Len(body) /\ ie + nfrac > 0
        THEN Normal(At(s, 1) = "-",
                    DigitsVal(SubSeq(body, 1, ie)) * Pow10(nfrac)
                      + DigitsVal(SubSeq(body, ie + 2, fe)),
                    nfrac)
        ELSE NotNumeric

(***************************************************************************)
(* The cells drawn for the cleaning steps.                                 *)
(***************************************************************************)
Columns == {"Matchup", "Spread", "Total", "Moneyline"}
NumericColumns == {"Spread", "Total", "Moneyline"}

NumChars == {"-", "+", Minus, "3", "0", ".", "u", " "}

RECURSIVE TextsUpTo(_, _)
TextsUpTo(chars, n) ==
    IF n = 0 THEN {<<>>}
    ELSE LET shorter == TextsUpTo(chars, n - 1)
         IN  shorter \cup {Append(t, c) : t \in shorter, c \in chars}

ExampleSpread == <<"-", "3", ".", "5", " ", "(", "-", "1", "1", "0", ")">>
ExampleTotal == <<"4", "7", ".", "5", "u">>
ExampleMoneyline == <<Minus, "1", "5", "0">>
ExampleMatchup == <<"7", ":", "0", "0", "P", "M", "E", "S", "T", " ", "A", " ", "B">>

NumCells ==
    TextsUpTo(NumChars, MaxCellLen)
      \cup {ExampleSpread, ExampleTotal, ExampleMoneyline}

MatchupChunks ==
    { <<"7", ":", "0", "0", "P", "M", "E", "T", " ">>,
      <<"1", "2", ":", "3", "0", "A", "M", "E", "S", "T">>,
      <<"7", "0", "0", "P", "M", "E", "T">>,
      <<"7", ":", "0", "0", "P", "M">>,
      <<":">>, <<"7">>, <<" ">>, <<"B">> }

RECURSIVE ChunkTexts(_)
ChunkTexts(n) ==
    IF n = 0 THEN {<<>>}
    ELSE LET shorter == ChunkTexts(n - 1)
         IN  shorter \cup {t \o c : t \in shorter, c \in MatchupChunks}

MatchupCells == ChunkTexts(MaxChunks) \cup {ExampleMatchup}

CellsOf(col) == IF col = "Matchup" THEN MatchupCells ELSE NumCells

\* the lambda applied to a column, lines 72-87
CleanOf(col, x) ==
    CASE col = "Matchup" -> CleanMatchup(x)
      [] col = "Spread" -> CleanSpread(x)
      [] col = "Total" -> CleanTotal(x)
      [] col = "Moneyline" -> CleanMoneyline(x)

NoCell ==
    [col |-> "", raw |-> <<>>, out |-> <<>>, again |-> <<>>, stage |-> "none",
     num |-> NotNumeric]

\* a text cell of a parsed table, before line 72
CellInit ==
    \E col \in Columns : \E x \in CellsOf(col) :
        cell = [col |-> col, raw |-> x, out |-> x, again |-> <<>>, stage |-> "raw",
                num |-> NotNumeric]

\* all_odds[col] = all_odds[col].apply(lambda ...), lines 72-87
CleanCell ==
    /\ cell.stage = "raw"
    /\ cell' = [cell EXCEPT !.out = CleanOf(cell.col, cell.raw), !.stage = "cleaned"]
    /\ UNCHANGED machine_vars

\* lines 72-74 applied to a Matchup value they have already cleaned
CleanAgain ==
    /\ cell.stage = "cleaned"
    /\ cell.col = "Matchup"
    /\ cell' = [cell EXCEPT !.again = CleanMatchup(cell.out), !.stage = "recleaned"]
    /\ UNCHANGED machine_vars

\* all_odds[col] = pd.to_numeric(all_odds[col]), lines 88-90
CoerceCell ==
    /\ cell.stage = "cleaned"
    /\ cell.col \in NumericColumns
    /\ cell' = [cell EXCEPT !.num = ToNumeric(cell.out),
                            !.stage = IF ToNumeric(cell.out).ok THEN "coerced"
                                      ELSE "ValueError"]
    /\ UNCHANGED machine_vars

(***************************************************************************)
(* Input validation, OddsScraperWindow.validate_inputs.                    *)
(***************************************************************************)
MaxLength == 2        \* QLineEdit.setMaxLength(2) of both week inputs
MinWeek == 1
MaxWeek == 18

\* the texts typed into the week inputs while runs are followed: not a
\* number, below the range, and weeks 1 to 3 in several spellings
WeekTexts ==
    { t \in { <<"a">>, <<"0">>, <<"1">>, <<"0", "2">>, <<" ", "3">> } :
        Len(t) <= MaxLength }

\* every text of up to MaxLength of these characters
WeekChars == {"0", "1", "9", " ", "a"}
TypedTexts == TextsUpTo(WeekChars, MaxLength)

\* Python int(str): blanks around the text are skipped, one sign is
\* allowed, the rest must be one or more digits; anything else raises
\* ValueError (ok = FALSE)
ParseInt(t) ==
    LET a == SpaceRunEnd(t, 1) + 1
        u == IF a > Len(t) THEN <<>>
             ELSE SubSeq(t, a, CHOOSE j \in a..Len(t) :
                                 /\ ~IsSpace(t[j])
                                 /\ \A k \in (j + 1)..Len(t) : IsSpace(t[k]))
        body == IF At(u, 1) \in {"-", "+"} THEN Tail(u) ELSE u
    IN  IF body # <<>> /\ \A i \in 1..Len(body) : IsDigit(body[i])
        THEN [ok |-> TRUE,
              val |-> IF At(u, 1) = "-" THEN -DigitsVal(body) ELSE DigitsVal(body)]
        ELSE [ok |-> FALSE, val |-> 0]

\* the upper limit compared with >= 20
validate_week_to19(week_str, label) ==
    IF ParseInt(week_str).ok
    THEN IF ParseInt(week_str).val < MinWeek \/ ParseInt(week_str).val > MaxWeek + 1
         THEN label \o " must be between 1 and 18."
         ELSE ""
    ELSE label \o " must be a number between 1 and 18."

\* validate_week: the error message, or "" for None
validate_week(week_str, label) ==
    IF ParseInt(week_str).ok
    THEN IF ParseInt(week_str).val < MinWeek \/ ParseInt(week_str).val > MaxWeek
         THEN label \o " must be between 1 and 18."
         ELSE ""
    ELSE label \o " must be a number between 1 and 18."

\* the end week looked at before the start week
validate_inputs_end_first(st, et) ==
    LET start_week_error == validate_week(st, "Start week")
        end_week_error == validate_week(et, "End week")
    IN  IF end_week_error # "" THEN [ok |-> FALSE, msg |-> end_week_error]
        ELSE IF start_week_error # "" THEN [ok |-> FALSE, msg |-> start_week_error]
        ELSE IF ParseInt(et).val < ParseInt(st).val
        THEN [ok |-> FALSE,
              msg |-> "End week must be greater than or equal to start week."]
        ELSE [ok |-> TRUE, msg |-> ""]

\* validate_inputs: its return value and the status text it sets
\* (msg = "" when it leaves the status text alone)
validate_inputs(st, et) ==
    LET start_week_error == validate_week(st, "Start week")
        end_week_error == validate_week(et, "End week")
    IN  IF start_week_error # "" THEN [ok |-> FALSE, msg |-> start_week_error]
        ELSE IF end_week_error # "" THEN [ok |-> FALSE, msg |-> end_week_error]
        ELSE IF ParseInt(et).val < ParseInt(st).val
        THEN [ok |-> FALSE,
              msg |-> "End week must be greater than or equal to start week."]
        ELSE [ok |-> TRUE, msg |-> ""]

(***************************************************************************)
(* The browser session, get_webdriver and stop_webdriver.                  *)
(***************************************************************************)
None == 0             \* Python None, for a worker or a driver handle

\* what get_webdriver can do when no handle is cached: return a new
\* session, or raise WebDriverException out of lines 260-262
DriverOutcomes == {"created", "WebDriverException"}

\* a new session whether or not a handle is cached
get_webdriver_always_new(outcome) ==
    IF outcome = "created"
    THEN [driver |-> created + 1, raised |-> FALSE, local |-> created + 1,
          live |-> sessions \cup {created + 1}, made |-> created + 1]
    ELSE [driver |-> None, raised |-> TRUE, local |-> local_driver,
          live |-> sessions, made |-> created]

\* get_webdriver: the handle returned (None when it raised) and the
\* session state it leaves
get_webdriver(outcome) ==
    IF local_driver # None
    THEN [driver |-> local_driver, raised |-> FALSE, local |-> local_driver,
          live |-> sessions, made |-> created]
    ELSE IF outcome = "created"
    THEN [driver |-> created + 1, raised |-> FALSE, local |-> created + 1,
          live |-> sessions \cup {created + 1}, made |-> created + 1]
    ELSE [driver |-> None, raised |-> TRUE, local |-> None,
          live |-> sessions, made |-> created]

\* the browser quit, the cached handle kept
stop_webdriver_keeps_handle(driver) ==
    IF driver # None
    THEN [local |-> local_driver, live |-> sessions \ {driver}]
    ELSE [local |-> local_driver, live |-> sessions]

\* stop_webdriver(driver): the session state it leaves
stop_webdriver(driver) ==
    IF driver # None
    THEN [local |-> None, live |-> sessions \ {driver}]
    ELSE [local |-> local_driver, live |-> sessions]

(***************************************************************************)
(* The worker, ScraperWorker.                                              *)
(***************************************************************************)
NoExc == [class |-> "none", msg |-> "", week |-> 0, step |-> ""]

\* no stop request acted on yet
NoStop == [worker |-> None, week |-> 0, pc |-> "idle", exported |-> 0]

NoWorker ==
    [start_week |-> 0, end_week |-> 0, driver |-> None, scraping_active |-> TRUE,
     pc |-> "idle", week |-> 0, exc |-> NoExc]

\* a worker that takes over the flag of the worker before it
NewWorkerKeepsFlag(start_week, end_week, driver) ==
    [start_week |-> start_week, end_week |-> end_week, driver |-> driver,
     scraping_active |-> w.scraping_active, pc |-> "check", week |-> start_week,
     exc |-> NoExc]

\* ScraperWorker.__init__ followed by start()
NewWorker(start_week, end_week, driver) ==
    [start_week |-> start_week, end_week |-> end_week, driver |-> driver,
     scraping_active |-> TRUE, pc |-> "check", week |-> start_week, exc |-> NoExc]

Signal(sig, msg) == [sig |-> sig, msg |-> msg]

StoppedMsg == "Scraping stopped by user."
WeekMsg(week) == "Week " \o ToString(week) \o " data scraped successfully."
ErrorMsg(error) == "An error occurred: " \o error

CaughtClasses == {"ValueError", "WebDriverException"}

(***************************************************************************)
(* One week's page, and its way through lines 62-90.                       *)
(***************************************************************************)
Txt(s) == [text |-> TRUE, s |-> s]
NonText == [text |-> FALSE, s |-> <<>>]     \* a float cell, such as NaN

Row(m, sp, t, ml) == [Matchup |-> m, Spread |-> sp, Total |-> t, Moneyline |-> ml]

GoodRow ==
    Row(Txt(ExampleMatchup), Txt(ExampleSpread), Txt(ExampleTotal),
        Txt(ExampleMoneyline))

Page(parsed, columns, rows) == [parsed |-> parsed, columns |-> columns, rows |-> rows]

SamplePages ==
    { Page(TRUE, Columns, <<GoodRow>>),
      Page(TRUE, Columns, <<GoodRow, GoodRow>>),
      \* a pick'em spread: cleaning finds no number and leaves the text
      Page(TRUE, Columns, <<GoodRow, [GoodRow EXCEPT !.Spread = Txt(<<"P", "K">>)]>>),
      Page(TRUE, Columns, <<[GoodRow EXCEPT !.Total = Txt(<<"u">>)]>>),
      Page(TRUE, Columns, <<[GoodRow EXCEPT !.Moneyline = Txt(<<"E", "V", "E", "N">>)]>>),
      \* an empty cell, read by pandas as a float
      Page(TRUE, Columns, <<[GoodRow EXCEPT !.Total = NonText]>>),
      \* a table without a Total column
      Page(TRUE, Columns \ {"Total"}, <<GoodRow>>),
      \* a table element pd.read_html finds no table in
      Page(FALSE, Columns, <<>>) }

AllText(page, col) == \A i \in 1..Len(page.rows) : page.rows[i][col].text

Coerces(page, col) ==
    \A i \in 1..Len(page.rows) : ToNumeric(CleanOf(col, page.rows[i][col].s)).ok

Raise(class, msg, step) == [class |-> class, msg |-> msg, step |-> step]

\* the exception of all_odds[col].apply(...) for a numeric column, lines
\* 75-87: the column is looked up, then every cell is handed to re.search
\* (Moneyline: to str.replace)
ApplyError(page, col) ==
    IF col \notin page.columns THEN Raise("KeyError", col, "clean")
    ELSE IF AllText(page, col) THEN Raise("none", "", "")
    ELSE IF col = "Moneyline"
    THEN Raise("AttributeError", "object has no attribute 'replace'", "clean")
    ELSE Raise("TypeError", "expected string or bytes-like object", "clean")

\* lines 62-90 on a fetched page: the first exception raised, in the order
\* of the statements, or class "none"
Transform(page) ==
    IF ~page.parsed THEN Raise("ValueError", "No tables found", "read_html")
    ELSE IF ~AllText(page, "Matchup")
    THEN Raise("TypeError", "expected string or bytes-like object", "clean")
    ELSE IF ApplyError(page, "Spread").class # "none" THEN ApplyError(page, "Spread")
    ELSE IF ApplyError(page, "Total").class # "none" THEN ApplyError(page, "Total")
    ELSE IF ApplyError(page, "Moneyline").class # "none"
    THEN ApplyError(page, "Moneyline")
    ELSE IF \E col \in NumericColumns : ~Coerces(page, col)
    THEN Raise("ValueError", "Unable to parse string", "to_numeric")
    ELSE Raise("none", "", "")

(***************************************************************************)
(* The exported file, lines 92-96.                                         *)
(***************************************************************************)
OutputPath == "odds"  \* config["DEFAULT"]["OutputPath"]

\* format(n, "2"): padded with a blank
Fmt02Blank(n) == IF n >= 0 /\ n < 10 THEN " " \o ToString(n) ELSE ToString(n)

\* format(n, "02")
Fmt02(n) == IF n >= 0 /\ n < 10 THEN "0" \o ToString(n) ELSE ToString(n)

\* f"{OUTPUT_PATH}/{current_year-2000:02}{week:02}.xlsx"
output_file(current_year, week) ==
    OutputPath \o "/" \o Fmt02(current_year - 2000) \o Fmt02(week) \o ".xlsx"

(***************************************************************************)
(* ScraperWorker.run, one action per step of the loop body.                *)
(***************************************************************************)
Emit(sigs) ==
    /\ emitted' = emitted \o sigs
    /\ inbox' = inbox \o sigs

\* the cancellation check without its break
LoopTopNoBreak(wr) ==
    IF wr.week > wr.end_week THEN [pc |-> "finally", sigs |-> <<>>]
    ELSE IF ~wr.scraping_active
    THEN [pc |-> "fetch", sigs |-> <<Signal("progress", StoppedMsg)>>]
    ELSE [pc |-> "fetch", sigs |-> <<>>]

\* lines 54-57: the range test and the cancellation check of one iteration
LoopTop(wr) ==
    IF wr.week > wr.end_week THEN [pc |-> "finally", sigs |-> <<>>]
    ELSE IF ~wr.scraping_active
    THEN [pc |-> "finally", sigs |-> <<Signal("progress", StoppedMsg)>>]
    ELSE [pc |-> "fetch", sigs |-> <<>>]

WorkerCheck ==
    /\ app = "running"
    /\ w.pc = "check"
    /\ w' = [w EXCEPT !.pc = LoopTop(w).pc]
    /\ Emit(LoopTop(w).sigs)
    /\ UNCHANGED <<gui_vars, drv_vars, app, year, fetched, exported, stop_request, cell>>

\* lines 58-61: driver.get and the wait for a table, bounded by TIMEOUT
FetchOutcomes(wr) ==
    IF wr.driver \in sessions THEN {"ok", "WebDriverException"}
    ELSE {"WebDriverException"}

\* a fetch that looks at the cancellation flag first
WorkerFetchChecksFlag ==
    /\ app = "running"
    /\ w.pc = "fetch"
    /\ IF ~w.scraping_active
       THEN /\ w' = [w EXCEPT !.pc = "finally"]
            /\ Emit(<<Signal("progress", StoppedMsg)>>)
            /\ UNCHANGED fetched
       ELSE /\ fetched' = Append(fetched, w.week)
            /\ \E outcome \in FetchOutcomes(w) :
                  w' = IF outcome = "ok" THEN [w EXCEPT !.pc = "transform"]
                       ELSE [w EXCEPT !.pc = "except",
                                      !.exc = [class |-> "WebDriverException",
                                               msg |-> "Message: timeout",
                                               week |-> w.week, step |-> "fetch"]]
            /\ UNCHANGED <<inbox, emitted>>
    /\ UNCHANGED <<gui_vars, drv_vars, app, year, exported, stop_request, cell>>

WorkerFetch ==
    /\ app = "running"
    /\ w.pc = "fetch"
    /\ fetched' = Append(fetched, w.week)
    /\ \E outcome \in FetchOutcomes(w) :
          w' = IF outcome = "ok" THEN [w EXCEPT !.pc = "transform"]
               ELSE [w EXCEPT !.pc = "except",
                              !.exc = [class |-> "WebDriverException",
                                       msg |-> "Message: timeout",
                                       week |-> w.week, step |-> "fetch"]]
    /\ UNCHANGED <<gui_vars, drv_vars, app, year, inbox, emitted, exported, stop_request, cell>>

\* the week's file written before the columns are coerced
WorkerTransformWritesFirst ==
    /\ app = "running"
    /\ w.pc = "transform"
    /\ \E page \in SamplePages :
          LET r == Transform(page)
          IN  /\ w' = IF r.class = "none" THEN [w EXCEPT !.pc = "export"]
                      ELSE [w EXCEPT !.pc = "except",
                                     !.exc = [class |-> r.class, msg |-> r.msg,
                                              week |-> w.week, step |-> r.step]]
              /\ exported' = IF r.step = "to_numeric"
                             THEN Append(exported, [week |-> w.week, year |-> year,
                                                    path |-> ""])
                             ELSE exported
    /\ UNCHANGED <<gui_vars, drv_vars, app, year, inbox, emitted, fetched, stop_request, cell>>

\* lines 62-90
WorkerTransform ==
    /\ app = "running"
    /\ w.pc = "transform"
    /\ \E page \in SamplePages :
          LET r == Transform(page)
          IN  w' = IF r.class = "none" THEN [w EXCEPT !.pc = "export"]
                   ELSE [w EXCEPT !.pc = "except",
                                  !.exc = [class |-> r.class, msg |-> r.msg,
                                           week |-> w.week, step |-> r.step]]
    /\ UNCHANGED <<gui_vars, drv_vars, app, year, inbox, emitted, fetched,
                   exported, stop_request, cell>>

\* lines 92-97: the file is written, then the week's progress signal is
\* emitted
WorkerExport ==
    /\ app = "running"
    /\ w.pc = "export"
    /\ exported' = Append(exported,
            [week |-> w.week, year |-> year, path |-> output_file(year, w.week)])
    /\ Emit(<<Signal("progress", WeekMsg(w.week))>>)
    /\ w' = [w EXCEPT !.pc = "check", !.week = w.week + 1]
    /\ UNCHANGED <<gui_vars, drv_vars, app, year, fetched, stop_request, cell>>

\* the error signal without the exception's text
ExceptSignalsNoText(exc) ==
    IF exc.class \in CaughtClasses THEN <<Signal("error", "An error occurred.")>>
    ELSE <<>>

\* lines 98-99: what the except clause emits for an exception in flight
ExceptSignals(exc) ==
    IF exc.class \in CaughtClasses THEN <<Signal("error", ErrorMsg(exc.msg))>>
    ELSE <<>>

WorkerExcept ==
    /\ app = "running"
    /\ w.pc = "except"
    /\ Emit(ExceptSignals(w.exc))
    /\ w' = [w EXCEPT !.pc = "finally"]
    /\ UNCHANGED <<gui_vars, drv_vars, app, year, fetched, exported, stop_request, cell>>

\* finished emitted as the last statement of the try body instead
FinallySignalsInTry(exc) ==
    IF exc.class = "none" THEN <<Signal("finished", "")>> ELSE <<>>

\* lines 100-101: what the finally clause emits, whatever ended the loop
FinallySignals(exc) == <<Signal("finished", "")>>

WorkerFinally ==
    /\ app = "running"
    /\ w.pc = "finally"
    /\ Emit(FinallySignals(w.exc))
    /\ w' = [w EXCEPT !.pc = "done"]
    /\ UNCHANGED <<gui_vars, drv_vars, app, year, fetched, exported, stop_request, cell>>

WorkerStep ==
    \/ WorkerCheck
    \/ WorkerFetch
    \/ WorkerTransform
    \/ WorkerExport
    \/ WorkerExcept
    \/ WorkerFinally

(***************************************************************************)
(* The window, OddsScraperWindow: one action per handled event.  A         *)
(* disabled button does not emit clicked, so each slot is guarded by its   *)
(* button being enabled.                                                   *)
(***************************************************************************)
RunningMsg == "Running..."
StoppingMsg == "Stopping..."
DoneMsg == "Done!"
CheckLogsMsg == "An error occurred. Check logs for details."

\* start_scraping, with the two texts the inputs hold when it is clicked
StartScrapingFrom(texts) ==
    /\ app = "running"
    /\ start_button
    /\ \E st \in texts, et \in texts :
          /\ start_week_edit' = st
          /\ end_week_edit' = et
          /\ IF ~validate_inputs(st, et).ok
             THEN /\ status_text' = validate_inputs(st, et).msg
                  /\ start_button' = TRUE
                  /\ UNCHANGED <<stop_button, worker, run_vars, drv_vars,
                                 stop_request>>
             ELSE \E outcome \in DriverOutcomes :
                    LET g == get_webdriver(outcome)
                    IN  /\ local_driver' = g.local
                        /\ sessions' = g.live
                        /\ created' = g.made
                        /\ IF g.raised
                           THEN /\ status_text' = CheckLogsMsg
                                /\ start_button' = TRUE
                                /\ UNCHANGED <<stop_button, worker, run_vars,
                                               stop_request>>
                           ELSE /\ worker < MaxRuns
                                /\ worker' = worker + 1
                                /\ w' = NewWorker(ParseInt(st).val, ParseInt(et).val,
                                                  g.driver)
                                /\ emitted' = <<>>
                                /\ fetched' = <<>>
                                /\ exported' = <<>>
                                /\ status_text' = RunningMsg
                                /\ start_button' = FALSE
                                /\ stop_button' = TRUE
                                /\ stop_request' = [NoStop EXCEPT
                                                        !.worker = stop_request.worker]
    /\ UNCHANGED <<inbox, app, year, cell>>

StartScraping == StartScrapingFrom(WeekTexts)

StartTyped == StartScrapingFrom(TypedTexts)

\* a stop request that also shuts the browser down
StopScrapingQuitsDriver ==
    /\ app = "running"
    /\ stop_button
    /\ w' = [w EXCEPT !.scraping_active = FALSE]
    /\ stop_button' = FALSE
    /\ status_text' = StoppingMsg
    /\ stop_request' = [worker |-> worker, week |-> w.week, pc |-> w.pc,
                                 exported |-> Len(exported)]
    /\ local_driver' = stop_webdriver(w.driver).local
    /\ sessions' = stop_webdriver(w.driver).live
    /\ UNCHANGED <<start_button, start_week_edit, end_week_edit, worker, inbox,
                   created, app, year, emitted, fetched, exported, cell>>

\* stop_scraping
StopScraping ==
    /\ app = "running"
    /\ stop_button
    /\ IF worker # None
       THEN /\ w' = [w EXCEPT !.scraping_active = FALSE]
            /\ stop_button' = FALSE
            /\ status_text' = StoppingMsg
            /\ stop_request' = [worker |-> worker, week |-> w.week, pc |-> w.pc,
                                 exported |-> Len(exported)]
       ELSE UNCHANGED <<w, stop_button, status_text, stop_request>>
    /\ UNCHANGED <<start_button, start_week_edit, end_week_edit, worker, inbox,
                   drv_vars, app, year, emitted, fetched, exported, cell>>

\* the queued delivery of the oldest pending signal to its slot
Delivered(sig) ==
    /\ app = "running"
    /\ inbox # <<>>
    /\ Head(inbox).sig = sig
    /\ inbox' = Tail(inbox)
    /\ UNCHANGED <<start_week_edit, end_week_edit, worker, drv_vars, app, year,
                   run_vars, stop_request, cell>>

\* a finished slot that leaves the stop button as it is
OnFinishedKeepsStop ==
    /\ Delivered("finished")
    /\ start_button' = TRUE
    /\ status_text' = DoneMsg
    /\ UNCHANGED stop_button

OnFinished ==
    /\ Delivered("finished")
    /\ start_button' = TRUE
    /\ stop_button' = FALSE
    /\ status_text' = DoneMsg

OnProgress ==
    /\ Delivered("progress")
    /\ status_text' = Head(inbox).msg
    /\ UNCHANGED <<start_button, stop_button>>

\* an error slot that lets the user start again at once
OnErrorEnablesStart ==
    /\ Delivered("error")
    /\ status_text' = Head(inbox).msg
    /\ start_button' = TRUE
    /\ UNCHANGED stop_button

OnError ==
    /\ Delivered("error")
    /\ status_text' = Head(inbox).msg
    /\ UNCHANGED <<start_button, stop_button>>

\* main: app.exec() returns, the aboutToQuit hook runs
\* stop_webdriver(LOCAL_THREAD.driver), and the process exits
Quit ==
    /\ app = "running"
    /\ app' = "exited"
    /\ local_driver' = stop_webdriver(local_driver).local
    /\ sessions' = stop_webdriver(local_driver).live
    /\ UNCHANGED <<gui_vars, run_vars, inbox, created, year, stop_request, cell>>

\* datetime.now().year moves on
NewYear ==
    /\ app = "running"
    /\ year < FirstYear + MaxYearTicks
    /\ year' = year + 1
    /\ UNCHANGED <<gui_vars, run_vars, drv_vars, inbox, app, stop_request, cell>>

(***************************************************************************)
(* Specifications.                                                         *)
(***************************************************************************)
MachineInit ==
    /\ start_button = TRUE
    /\ stop_button = FALSE
    /\ status_text = "Ready"
    /\ start_week_edit = <<>>
    /\ end_week_edit = <<>>
    /\ worker = None
    /\ inbox = <<>>
    /\ local_driver = None
    /\ sessions = {}
    /\ created = 0
    /\ app = "running"
    /\ year = FirstYear
    /\ w = NoWorker
    /\ emitted = <<>>
    /\ fetched = <<>>
    /\ exported = <<>>
    /\ stop_request = NoStop

Init == MachineInit /\ cell = NoCell

Next ==
    \/ StartScraping
    \/ StopScraping
    \/ OnFinished
    \/ OnProgress
    \/ OnError
    \/ WorkerCheck
    \/ WorkerFetch
    \/ WorkerTransform
    \/ WorkerExport
    \/ WorkerExcept
    \/ WorkerFinally
    \/ Quit
    \/ NewYear

\* the application
Spec == Init /\ [][Next]_vars

\* the application with the worker thread and the GUI event loop scheduled
FairSpec == Spec /\ WF_vars(WorkerStep)

\* one text cell through cleaning and coercion
CleanInit == MachineInit /\ CellInit

CleanNext == CleanCell \/ CleanAgain \/ CoerceCell

CleanSpec == CleanInit /\ [][CleanNext]_vars

\* start requests with every typed text, no worker scheduled
InputSpec == Init /\ [][StartTyped]_vars

\* a call of get_webdriver; w.driver is the handle the caller got, as in
\* ScraperWorker(start_week, end_week, driver)
Acquire ==
    /\ created < MaxSessions
    /\ \E outcome \in DriverOutcomes :
          LET g == get_webdriver(outcome)
          IN  /\ local_driver' = g.local
              /\ sessions' = g.live
              /\ created' = g.made
              /\ w' = [w EXCEPT !.driver = g.driver]
    /\ UNCHANGED <<gui_vars, inbox, app, year, emitted, fetched, exported,
                   stop_request, cell>>

\* a call of stop_webdriver with what line 278 passes, the cached handle,
\* or with None
Release ==
    /\ \E driver \in {None, local_driver} :
          /\ local_driver' = stop_webdriver(driver).local
          /\ sessions' = stop_webdriver(driver).live
    /\ UNCHANGED <<gui_vars, run_vars, inbox, created, app, year, stop_request, cell>>

\* get_webdriver and stop_webdriver called in any order
DriverSpec == Init /\ [][Acquire \/ Release]_vars

(***************************************************************************)
(* Properties.                                                             *)
(***************************************************************************)
StoppedSig == Signal("progress", StoppedMsg)
FinishedSig == Signal("finished", "")

Positions(seq, sig) == {i \in 1..Len(seq) : seq[i].sig = sig}
NStopped == Cardinality({i \in 1..Len(emitted) : emitted[i] = StoppedSig})
NErrors == Cardinality(Positions(emitted, "error"))
NFinished == Cardinality(Positions(emitted, "finished"))

ExportedWeeks == [i \in 1..Len(exported) |-> exported[i].week]
WeeksFromTo(a, b) == [i \in 1..(b - a + 1) |-> a + i - 1]

Started == w.pc \notin {"idle", "done"}
Ended == w.pc = "done"

\* how a run ended, read off its notifications
RunOutcome ==
    IF ~Ended THEN "Running"
    ELSE IF NErrors > 0 THEN "Failed"
    ELSE "Completed"

\* C1 (safety part): a run has emitted 'finished' exactly when it has ended,
\* it emits it once, and nothing is emitted after it.
FinishedOnceAndLast ==
    /\ NFinished = (IF Ended THEN 1 ELSE 0)
    /\ Ended => emitted[Len(emitted)] = FinishedSig

\* C1: every started run emits 'finished' exactly once and as its last
\* notification on every exit path (all weeks done, cancelled, caught
\* failure, any other exception), and, the worker thread being scheduled,
\* every started run does end with it unless the process exits first.
C1_FinishedAlways ==
    /\ []FinishedOnceAndLast
    /\ Started ~> (Ended \/ app = "exited")

\* C1 witness: a run that died of an exception the except clause does not
\* name has ended with 'finished' as its last notification.
C1_Witness ==
    /\ Ended
    /\ w.exc.class \notin CaughtClasses \cup {"none"}
    /\ emitted[Len(emitted)] = FinishedSig

\* C2: a cancellation flag found set at the top of the iteration of week
\* k+1 (weeks s..k exported, the run not failed) ends the loop there: the
\* step emits 'Scraping stopped by user.' and nothing else, fetches and
\* exports nothing; in every run that emitted it, exactly weeks s..k are
\* exported, no later week is fetched, it was emitted once, no error is
\* emitted, and the run ends as Completed.
StopFoundAtTop ==
    /\ w.pc = "check"
    /\ ~w.scraping_active
    /\ w.week <= w.end_week

StopEndsLoop ==
    (StopFoundAtTop /\ w' # w) =>
        /\ w' = [w EXCEPT !.pc = "finally"]
        /\ emitted' = Append(emitted, StoppedSig)
        /\ exported' = exported
        /\ fetched' = fetched

CancelledRun ==
    /\ StopFoundAtTop =>
          /\ ExportedWeeks = WeeksFromTo(w.start_week, w.week - 1)
          /\ fetched = ExportedWeeks
          /\ NStopped = 0 /\ NErrors = 0
    /\ NStopped > 0 =>
          /\ w.week \in w.start_week..w.end_week
          /\ ExportedWeeks = WeeksFromTo(w.start_week, w.week - 1)
          /\ fetched = ExportedWeeks
          /\ NStopped = 1
          /\ NErrors = 0
          /\ w.pc \in {"finally", "done"}
          /\ Ended => RunOutcome = "Completed"

C2_Cancellation == [][StopEndsLoop]_vars /\ []CancelledRun

\* C2 witness: a run over [1,3] cancelled before week 2 has ended with week
\* 1 exported alone.
C2_Witness ==
    /\ Ended
    /\ NStopped = 1
    /\ w.start_week = 1 /\ w.end_week = 3
    /\ ExportedWeeks = <<1>>

\* C3: when a ValueError or WebDriverException is raised while week f is
\* processed, exactly weeks s..f-1 are exported, week f is fetched and no
\* later week is, week f is not exported, one error notification with the
\* failure's message is emitted once the except clause has run, and the
\* run ends as Failed.
C3_Failure ==
    w.exc.class \in CaughtClasses =>
        /\ w.week = w.exc.week
        /\ ExportedWeeks = WeeksFromTo(w.start_week, w.exc.week - 1)
        /\ fetched = WeeksFromTo(w.start_week, w.exc.week)
        /\ NStopped = 0
        /\ w.pc \in {"except", "finally", "done"}
        /\ w.pc = "except" => NErrors = 0
        /\ w.pc \in {"finally", "done"} =>
              /\ NErrors = 1
              /\ \A i \in Positions(emitted, "error") :
                    emitted[i].msg = "An error occurred: " \o w.exc.msg
        /\ Ended => RunOutcome = "Failed"

\* C3 witness: a run over [1,3] whose third week failed to coerce has ended
\* with weeks 1 and 2 exported.
C3_Witness ==
    /\ Ended
    /\ w.exc.class = "ValueError"
    /\ w.start_week = 1 /\ w.exc.week = 3
    /\ ExportedWeeks = <<1, 2>>

(***************************************************************************)
(* The path of a week's file, stated digit by digit.                       *)
(***************************************************************************)
DigitStr == <<"0", "1", "2", "3", "4", "5", "6", "7", "8", "9">>
TwoDigits(n) == DigitStr[(n \div 10) + 1] \o DigitStr[(n % 10) + 1]
ExpectedPath(y, wk) ==
    OutputPath \o "/" \o TwoDigits(y - 2000) \o TwoDigits(wk) \o ".xlsx"

PathYears == {2000, 2009, 2010, 2026, 2099}
AllWeeks == MinWeek..MaxWeek

PathsAsStated ==
    \A y \in PathYears :
        /\ \A wk \in AllWeeks : output_file(y, wk) = ExpectedPath(y, wk)
        /\ \A w1 \in AllWeeks, w2 \in AllWeeks :
              w1 # w2 => output_file(y, w1) # output_file(y, w2)

\* every export so far went to the path of its year and week, and was
\* followed by its own progress notification
ExportsAsStated ==
    /\ \A i \in 1..Len(exported) :
          exported[i].path = ExpectedPath(exported[i].year, exported[i].week)
    /\ Cardinality({j \in 1..Len(emitted) :
                       emitted[j].sig = "progress" /\ emitted[j] # StoppedSig})
         = Len(exported)
    /\ \A i \in 1..Len(exported) :
          emitted[i] = Signal("progress", WeekMsg(exported[i].week))

\* C5: a run that ended with no failure and no cancellation has exported
\* every week of [s,e] once, in increasing order, each followed by its
\* progress notification, each to OutputPath/YYWW.xlsx (both zero-padded
\* to two digits); the path depends on year and week alone and differs
\* between weeks of a year; the run is Completed with no error and no
\* 'stopped by user' notification.
C5_SuccessfulRun ==
    /\ PathsAsStated
    /\ ExportsAsStated
    /\ (Ended /\ w.exc.class = "none" /\ NStopped = 0) =>
          /\ ExportedWeeks = WeeksFromTo(w.start_week, w.end_week)
          /\ fetched = ExportedWeeks
          /\ emitted = [i \in 1..(Len(exported) + 1) |->
                          IF i <= Len(exported)
                          THEN Signal("progress", WeekMsg(exported[i].week))
                          ELSE FinishedSig]
          /\ NErrors = 0
          /\ RunOutcome = "Completed"

\* C5 witness: an uncancelled run over [1,3] has ended with three files.
C5_Witness ==
    /\ Ended
    /\ w.scraping_active
    /\ w.exc.class = "none"
    /\ w.start_week = 1 /\ w.end_week = 3
    /\ Len(exported) = 3

\* a cell in which cleaning finds no number and that is not empty
NoNumberCell(c) == c.text /\ c.s # <<>> /\ \A i \in 1..Len(c.s) : ~IsDigit(c.s[i])

NoNumberPagesFail ==
    \A page \in SamplePages :
        (/\ page.parsed
         /\ page.columns = Columns
         /\ \A col \in Columns : AllText(page, col)
         /\ \E i \in 1..Len(page.rows) :
               NoNumberCell(page.rows[i].Spread) \/ NoNumberCell(page.rows[i].Total))
        => Transform(page) = Raise("ValueError", "Unable to parse string", "to_numeric")

\* C6: when the coercion of a Spread, Total or Moneyline value fails for
\* week f (a cell that cleaning left without a number does fail), this run
\* writes no file for week f, and the failure is emitted as an error
\* notification.
C6_NoPartialOutput ==
    /\ NoNumberPagesFail
    /\ w.exc.step = "to_numeric" =>
          /\ w.exc.class = "ValueError"
          /\ \A i \in 1..Len(exported) : exported[i].week # w.exc.week
          /\ w.pc \in {"finally", "done"} =>
                \E i \in 1..Len(emitted) :
                    emitted[i] = Signal("error", ErrorMsg(w.exc.msg))

\* C6 witness: week 2 of a run failed to coerce; the run ended with the
\* file of week 1 alone.
C6_Witness ==
    /\ Ended
    /\ w.exc.step = "to_numeric"
    /\ w.exc.week = 2
    /\ ExportedWeeks = <<1>>

(***************************************************************************)
(* The week texts, stated by listing the spellings Python's int accepts    *)
(* within MaxLength characters.                                            *)
(***************************************************************************)
Spellings(n) ==
    IF n < 10
    THEN LET d == DigitStr[n + 1]
         IN  {<<d>>, <<"0", d>>, <<"+", d>>, <<" ", d>>, <<d, " ">>}
    ELSE {<<DigitStr[(n \div 10) + 1], DigitStr[(n % 10) + 1]>>}

WeeksSpelled(t) == {n \in AllWeeks : t \in Spellings(n)}

ValidPair(st, et) == \E a \in WeeksSpelled(st), b \in WeeksSpelled(et) : a <= b

ValidationMessages ==
    { "Start week must be between 1 and 18.",
      "Start week must be a number between 1 and 18.",
      "End week must be between 1 and 18.",
      "End week must be a number between 1 and 18.",
      "End week must be greater than or equal to start week." }

StartGated ==
    /\ worker' # worker =>
          /\ \E a \in WeeksSpelled(start_week_edit'), b \in WeeksSpelled(end_week_edit') :
                /\ a <= b
                /\ w' = NewWorker(a, b, local_driver')
          /\ worker' = worker + 1
          /\ local_driver' \in sessions'
    /\ ~ValidPair(start_week_edit', end_week_edit') =>
          /\ worker' = worker
          /\ w' = w
          /\ <<local_driver, sessions, created>>' = <<local_driver, sessions, created>>
          /\ status_text' \in ValidationMessages
          /\ start_button'
          /\ ~stop_button'

\* C4: a start request creates and starts a worker only when both texts
\* are integers with 1 <= startWeek <= endWeek <= 18; for any other pair no
\* worker is created, no browser session is acquired, the status line
\* shows a validation message and the start control is enabled again.
C4_ValidationGates == [][StartGated]_vars

\* C4 witness: weeks 9 and 1 were typed and refused; nothing was started.
C4_Witness ==
    /\ start_week_edit = <<"9">> /\ end_week_edit = <<"0", "1">>
    /\ status_text = "End week must be greater than or equal to start week."
    /\ worker = None /\ created = 0
    /\ start_button

(***************************************************************************)
(* Cell cleaning.                                                          *)
(***************************************************************************)
Colons(x) == Cardinality({i \in 1..Len(x) : x[i] = ":"})

\* C7 as stated: stripping a stripped Matchup value changes nothing, for
\* every Matchup string.
C7_Idempotent ==
    (cell.col = "Matchup" /\ cell.stage = "recleaned") => cell.again = cell.out

\* C7 amended: stripping a stripped Matchup value changes nothing for every
\* Matchup string with at most one colon, that is, with a single time of
\* day in it.
C7_IdempotentOneTime ==
    (cell.col = "Matchup" /\ cell.stage = "recleaned" /\ Colons(cell.raw) <= 1)
        => cell.again = cell.out

\* C7 witness: the prefix of "7:00PMEST A B" was removed, and removing it
\* again left "A B".
C7_Witness ==
    /\ cell.stage = "recleaned"
    /\ cell.raw = ExampleMatchup
    /\ cell.out = <<"A", " ", "B">>
    /\ cell.again = cell.out

\* the shapes \d+(\.\d+)? and [-+]?\d+(\.\d+)?, stated on a whole text
IsUnsignedDecimal(s) ==
    /\ s # <<>>
    /\ \A i \in 1..Len(s) : IsDigit(s[i]) \/ s[i] = "."
    /\ Cardinality({i \in 1..Len(s) : s[i] = "."}) <= 1
    /\ IsDigit(s[1]) /\ IsDigit(s[Len(s)])

IsSignedDecimal(s) ==
    \/ IsUnsignedDecimal(s)
    \/ /\ Len(s) > 1
       /\ s[1] \in {"-", "+"}
       /\ IsUnsignedDecimal(Tail(s))

\* x[i..j] is the leftmost, and there longest, part of x of the shape
IsFirstSigned(x, i, j) ==
    /\ IsSignedDecimal(SubSeq(x, i, j))
    /\ \A k \in 1..(i - 1) : \A l \in k..Len(x) : ~IsSignedDecimal(SubSeq(x, k, l))
    /\ \A l \in (j + 1)..Len(x) : ~IsSignedDecimal(SubSeq(x, i, l))

IsFirstUnsigned(x, i, j) ==
    /\ IsUnsignedDecimal(SubSeq(x, i, j))
    /\ \A k \in 1..(i - 1) : \A l \in k..Len(x) : ~IsUnsignedDecimal(SubSeq(x, k, l))
    /\ \A l \in (j + 1)..Len(x) : ~IsUnsignedDecimal(SubSeq(x, i, l))

\* the value of a text of shape [-+]?\d+(\.\d+)?
DecimalValue(s) ==
    LET body == IF s[1] \in {"-", "+"} THEN Tail(s) ELSE s
        dots == {i \in 1..Len(body) : body[i] = "."}
        p == IF dots = {} THEN Len(body) + 1 ELSE CHOOSE i \in dots : TRUE
        frac == SubSeq(body, p + 1, Len(body))
    IN  Normal(s[1] = "-",
               DigitsVal(SubSeq(body, 1, p - 1)) * Pow10(Len(frac)) + DigitsVal(frac),
               Len(frac))

HasNumber(x) == \E i \in 1..Len(x) : IsDigit(x[i])

Coerced == cell.stage \in {"coerced", "ValueError"}

SpreadAsStated ==
    /\ \E i \in 1..Len(cell.raw), j \in 1..Len(cell.raw) :
          /\ IsFirstSigned(cell.raw, i, j)
          /\ cell.out = SubSeq(cell.raw, i, j)
    /\ Coerced => cell.stage = "coerced" /\ cell.num = DecimalValue(cell.out)

TotalAsStated ==
    /\ \E i \in 1..Len(cell.raw), j \in 1..Len(cell.raw) :
          /\ IsFirstUnsigned(cell.raw, i, j)
          /\ cell.out = SubSeq(cell.raw, i, j)
    /\ Coerced =>
          /\ cell.stage = "coerced"
          /\ cell.num = DecimalValue(cell.out)
          /\ ~cell.num.neg

MoneylineAsStated ==
    /\ Len(cell.out) = Len(cell.raw)
    /\ \A i \in 1..Len(cell.raw) :
          cell.out[i] = (IF cell.raw[i] = Minus THEN "-" ELSE cell.raw[i])
    /\ (Coerced /\ IsSignedDecimal(cell.out)) =>
          cell.stage = "coerced" /\ cell.num = DecimalValue(cell.out)

Number(neg, mant, scale) ==
    [ok |-> TRUE, nan |-> FALSE, neg |-> neg, mant |-> mant, scale |-> scale]

ExamplesAsStated ==
    /\ (cell.col = "Spread" /\ cell.raw = ExampleSpread) => cell.num = Number(TRUE, 35, 1)
    /\ (cell.col = "Total" /\ cell.raw = ExampleTotal) => cell.num = Number(FALSE, 475, 1)
    /\ (cell.col = "Moneyline" /\ cell.raw = ExampleMoneyline)
          => cell.num = Number(TRUE, 150, 0)

\* C8: for a text cell with a number in it, cleaning and coercion give:
\* Spread, the leftmost signed decimal number in the cell, its sign kept;
\* Total, the leftmost unsigned decimal number, without sign; Moneyline,
\* the cell with every U+2212 replaced by "-", read as a number; so
\* "-3.5 (-110)" gives -3.5, "47.5u" gives 47.5, U+2212 "150" gives -150.
C8_NumericExtraction ==
    (cell.stage \in {"cleaned", "coerced", "ValueError"} /\ HasNumber(cell.raw)) =>
        /\ cell.col = "Spread" => SpreadAsStated
        /\ cell.col = "Total" => TotalAsStated
        /\ cell.col = "Moneyline" => MoneylineAsStated
        /\ Coerced => ExamplesAsStated

\* C8 witness: the Spread cell "-3.5 (-110)" has been coerced to -3.5.
C8_Witness ==
    /\ cell.col = "Spread"
    /\ cell.raw = ExampleSpread
    /\ cell.stage = "coerced"
    /\ cell.num = Number(TRUE, 35, 1)

AttemptMessages == ValidationMessages \cup {CheckLogsMsg, RunningMsg}

\* C10 as stated: once every notification of a failed run has been
\* handled (and no later start request has written to the status line),
\* the status line shows the error notification's text.
C10_ErrorShown ==
    (/\ Ended
     /\ w.exc.class \in CaughtClasses
     /\ inbox = <<>>
     /\ status_text \notin AttemptMessages)
    => status_text = ErrorMsg(w.exc.msg)

(***************************************************************************)
(* The session handle and the threads.  Every change of sessions, created  *)
(* and local_driver is made by a slot or by the shutdown hook, that is, on *)
(* the GUI thread; the worker thread only calls into the handle it was     *)
(* given.                                                                  *)
(***************************************************************************)
\* the worker's next statement calls into its handle (lines 58-62)
UsingHandle == w.pc \in {"fetch", "transform"}

Confined ==
    /\ UsingHandle =>
          /\ w.driver \in sessions => w.driver \in sessions'
          /\ created' = created
          /\ local_driver' = local_driver
    /\ worker' # worker => ~UsingHandle

\* C11 as stated: while a run is using its session handle, no step of the
\* GUI thread creates, hands out or terminates a handle, and no second
\* worker is given the handle.
C11_Confined == [][Confined]_vars

\* C11 amended: the same, except for the shutdown hook: it terminates the
\* cached handle on the GUI thread even while a run is using it.  Until
\* then a handle in use is live and is the cached one.
C11_ConfinedUntilShutdown ==
    /\ [][Confined \/ app' = "exited"]_vars
    /\ []((UsingHandle /\ app = "running") =>
            (w.driver \in sessions /\ w.driver = local_driver))

\* C11 witness: the second worker is fetching with the session the first
\* worker was given.
C11_Witness ==
    /\ app = "running"
    /\ worker = 2
    /\ UsingHandle
    /\ created = 1
    /\ w.driver = 1 /\ sessions = {1}

\* what the two functions return in the present state
CallsAsStated ==
    /\ stop_webdriver(None) = [local |-> local_driver, live |-> sessions]
    /\ local_driver # None =>
          /\ \A outcome \in DriverOutcomes :
                /\ get_webdriver(outcome).driver = local_driver
                /\ get_webdriver(outcome).live = sessions
                /\ get_webdriver(outcome).made = created
          /\ stop_webdriver(local_driver) =
                [local |-> None, live |-> sessions \ {local_driver}]
    /\ local_driver = None =>
          /\ get_webdriver("created").driver \notin 0..created
          /\ get_webdriver("created").live = sessions \cup {get_webdriver("created").driver}
          /\ get_webdriver("created").local = get_webdriver("created").driver

OneSession ==
    /\ Cardinality(sessions) <= 1
    /\ sessions = (IF local_driver = None THEN {} ELSE {local_driver})

CachedStep ==
    \* a session is created only when none is cached; it is a new one, it
    \* is cached and handed to the caller
    /\ created' # created =>
          /\ local_driver = None
          /\ created' \notin 0..created
          /\ sessions' = sessions \cup {created'}
          /\ local_driver' = created'
          /\ w'.driver = created'
    \* whatever handle a caller gets is the cached one
    /\ w'.driver # w.driver => w'.driver = local_driver'
    \* a session ends only by the release of the cached handle, which
    \* empties the cache
    /\ sessions' # sessions \cup sessions' =>
          /\ sessions' = sessions \ {local_driver}
          /\ local_driver' = None
          /\ created' = created

StoppedNow == stop_request.worker = worker /\ stop_request.pc # "idle"

\* it arrived while a week was in flight, after that week's flag check
InFlightAtStop == StoppedNow /\ stop_request.pc \in {"fetch", "transform", "export"}

\* the stop request itself changes nothing the run has done or is doing
StopLeavesStep ==
    (stop_request' # stop_request /\ stop_request'.pc # "idle") =>
        /\ worker' = worker
        /\ w' = [w EXCEPT !.scraping_active = FALSE]
        /\ UNCHANGED <<emitted, inbox, fetched, exported>>

AfterStop ==
    /\ InFlightAtStop =>
          \* the week in flight goes on: it is fetched, and exported unless
          \* it fails
          /\ (w.pc # "fetch" \/ w.week # stop_request.week) =>
                \E i \in 1..Len(fetched) : fetched[i] = stop_request.week
          /\ (w.exc.class = "none" /\ (w.week > stop_request.week \/ Ended)) =>
                ExportedWeeks = WeeksFromTo(w.start_week, stop_request.week)
          \* at most that one week more is exported, none after it fetched
          /\ Len(exported) <= stop_request.exported + 1
          /\ \A i \in 1..Len(exported) :
                i > stop_request.exported => exported[i].week = stop_request.week
          /\ \A i \in 1..Len(fetched) : fetched[i] <= stop_request.week
          \* the last week of the range: no 'stopped by user'
          /\ stop_request.week = w.end_week => NStopped = 0
          /\ (stop_request.week < w.end_week /\ w.exc.class = "none" /\ Ended) =>
                NStopped = 1
    /\ (StoppedNow /\ ~InFlightAtStop) =>
          /\ Len(exported) = stop_request.exported
          /\ \A i \in 1..Len(fetched) : fetched[i] <= stop_request.week
          /\ stop_request.pc = "check" =>
                \A i \in 1..Len(fetched) : fetched[i] < stop_request.week

\* C12: the flag is looked at only at the top of an iteration: a stop
\* request that arrives while week k is in flight changes nothing in the
\* worker's step; week k is still fetched and, unless it fails, exported;
\* after a stop request at most one more week is exported and no later
\* week is fetched; when k is the last week of the range the run ends
\* without a 'stopped by user' notification.
C12_StopAtBoundary == [][StopLeavesStep]_vars /\ []AfterStop

\* C12 witness: a stop request found week 3 of a run over [1,3] at its
\* fetch; the run ended with all three files and no 'stopped by user'.
C12_Witness ==
    /\ InFlightAtStop
    /\ stop_request.pc = "fetch" /\ stop_request.week = 3
    /\ w.start_week = 1 /\ w.end_week = 3
    /\ Ended
    /\ ExportedWeeks = <<1, 2, 3>>
    /\ NStopped = 0

(***************************************************************************)
(* Runs and the two buttons.                                               *)
(***************************************************************************)
\* a worker was started and its 'finished' has not been handled yet
RunOpen ==
    /\ worker # None
    /\ w.pc # "done" \/ \E i \in 1..Len(inbox) : inbox[i] = FinishedSig

\* C14: from the start of a worker until on_finished has handled its
\* 'finished', the start button stays disabled and no step creates a
\* second worker, whatever the order of start requests, stop requests and
\* notifications.
C14_OneRun ==
    /\ [][worker' # worker => (~RunOpen /\ start_button)]_vars
    /\ [](RunOpen => ~start_button)

\* C14 witness: the second worker has emitted 'finished' after a failure,
\* its error has been shown, 'finished' is still queued and the start
\* button is still disabled.
C14_Witness ==
    /\ worker = 2
    /\ Ended
    /\ NErrors = 1
    /\ inbox = <<FinishedSig>>
    /\ ~start_button

(***************************************************************************)
(* The validation messages, stated on the spellings of the integers.       *)
(***************************************************************************)
\* the integers a text of at most MaxLength characters spells
IntSpelled(t) == {n \in 0..99 : t \in Spellings(n)}

InRange(t) == \E n \in IntSpelled(t) : n \in AllWeeks

ExpectedMessage(st, et) ==
    IF IntSpelled(st) = {} THEN "Start week must be a number between 1 and 18."
    ELSE IF ~InRange(st) THEN "Start week must be between 1 and 18."
    ELSE IF IntSpelled(et) = {} THEN "End week must be a number between 1 and 18."
    ELSE IF ~InRange(et) THEN "End week must be between 1 and 18."
    ELSE IF \E a \in IntSpelled(st), b \in IntSpelled(et) : b < a
    THEN "End week must be greater than or equal to start week."
    ELSE ""

\* C15: after a start request the status line shows the message of the
\* first check that fails, in the order start week, end week, ordering:
\* "<label> must be a number between 1 and 18." for a text that is no
\* integer, "<label> must be between 1 and 18." for an integer outside
\* [1,18], "End week must be greater than or equal to start week." for two
\* valid weeks with end < start; and none of them when all checks pass.
C15_ValidationMessages ==
    status_text # "Ready" =>
        IF ExpectedMessage(start_week_edit, end_week_edit) # ""
        THEN status_text = ExpectedMessage(start_week_edit, end_week_edit)
        ELSE status_text \in {RunningMsg, CheckLogsMsg}

\* C15 witness: "a" and "0" were typed: both weeks are wrong, and the
\* message is the start week's.
C15_Witness ==
    /\ start_week_edit = <<"a">>
    /\ end_week_edit = <<"0">>
    /\ status_text = "Start week must be a number between 1 and 18."

(***************************************************************************)
(* What a run tells about its end.                                         *)
(***************************************************************************)
\* C16 as stated: a run that has ended without a file for every week of
\* its range has emitted 'Scraping stopped by user.' or an error
\* notification; a run that emitted neither has exported every week.
C16_EndExplained ==
    (Ended /\ ExportedWeeks # WeeksFromTo(w.start_week, w.end_week)) =>
        (NStopped > 0 \/ NErrors > 0)

(***************************************************************************)
(* The cancellation flag of successive runs.                               *)
(***************************************************************************)
\* no stop request has reached the current worker
NotStopped == stop_request.worker # worker

FreshFlag ==
    \* a run that no stop request reached has its flag set, emits no
    \* 'stopped by user' and, unless it fails, exports its whole range
    /\ (worker # None /\ NotStopped) =>
          /\ w.scraping_active
          /\ NStopped = 0
          /\ (Ended /\ w.exc.class = "none") =>
                ExportedWeeks = WeeksFromTo(w.start_week, w.end_week)
    \* before the first worker a stop request cannot be made and nothing
    \* bears the mark of one
    /\ worker = None =>
          /\ ~stop_button
          /\ stop_request = NoStop
          /\ w = NoWorker

\* C17: every new worker starts with scraping_active set, so a stop
\* request made during or after an earlier run does not make a later run
\* skip a week or emit 'stopped by user'; as long as no worker was created
\* a stop request changes nothing.
C17_FlagPerRun ==
    /\ [][worker' # worker => (w'.scraping_active /\ w'.pc = "check")]_vars
    /\ []FreshFlag

\* C17 witness: the first worker was stopped; the second, which nobody
\* stopped, has exported all of [1,3] without a 'stopped by user'.
C17_Witness ==
    /\ worker = 2
    /\ stop_request.worker = 1
    /\ Ended
    /\ w.scraping_active
    /\ ExportedWeeks = <<1, 2, 3>>
    /\ NStopped = 0

(***************************************************************************)
(* The two buttons between handled events.                                 *)
(***************************************************************************)
Controls ==
    /\ ~(start_button /\ stop_button)
    \* stop is enabled only while a started worker's 'finished' is still
    \* to be handled and no stop request has been handled
    /\ stop_button => (RunOpen /\ NotStopped)
    \* once 'finished' is handled: ready again
    /\ (worker # None /\ ~RunOpen) => (start_button /\ ~stop_button)
    /\ worker = None => (start_button /\ ~stop_button)

\* the handling of 'finished' itself
FinishedHandled ==
    (inbox # <<>> /\ Head(inbox) = FinishedSig /\ inbox' = Tail(inbox)) =>
        (start_button' /\ ~stop_button')

\* C18: between handled events the start and the stop button are never
\* both enabled; the stop button is enabled only from a successful worker
\* start until that worker's 'finished' or a stop request is handled; and
\* when 'finished' has been handled the start button is enabled and the
\* stop button disabled, however the run ended.
C18_Controls == [][FinishedHandled]_vars /\ []Controls

\* C18 witness: the 'finished' of a run that died of an exception the
\* except clause does not name has been handled, and the window is ready.
C18_Witness ==
    /\ Ended
    /\ w.exc.class \notin CaughtClasses \cup {"none"}
    /\ inbox = <<>>
    /\ status_text = DoneMsg
    /\ start_button /\ ~stop_button
====
